---- MODULE Spec2Model ----
(***************************************************************************)
(* Model of tools/validate-prompt-stack.py: one run of main().             *)
(*                                                                         *)
(* The run reads the argument vector, loads the YAML configuration, loads  *)
(* the JSON schema, validates, and, when validation succeeds, scans the    *)
(* roles' candidates for names that are not keys of models.                *)
(*                                                                         *)
(* The file system, the YAML/JSON parsers and jsonschema.validate are the  *)
(* environment: their results are chosen nondeterministically when the     *)
(* corresponding statement executes.  A parsed configuration ranges over   *)
(* the documents of the data model (optional roles, optional candidates    *)
(* per role, optional models).                                             *)
(***************************************************************************)
EXTENDS Integers, Sequences, FiniteSets, TLC

\* ------------------------------------------------------------------ bounds
MaxArgc == 3
MaxRoles == 2
MaxCands == 2

\* ------------------------------------------------------- input alphabets
RoleNames == {"writer", "reviewer"}
ModelNames == {"gpt-x", "ghost-model"}

\* Status the interpreter gives a process that dies of an uncaught exception.
UnhandledExitStatus == 1

NoStatus == 0 - 1

\* ------------------------------------------------------------ output lines
Line(kind, role, model) == [kind |-> kind, role |-> role, model |-> model]
UsageLine == Line("Usage", "", "")
FailedLine == Line("ValidationFailed", "", "")
DetailLine == Line("ErrorDetail", "", "")
PassedLine == Line("ValidationPassed", "", "")
DoneLine == Line("Done", "", "")
\* f'Warning: role "{role}" references unknown model "{m}"'
WarningLine(role, m) == Line("Warning", role, m)

\* ---------------------------------------------------------- configurations
CandSeqs == UNION {[1..n -> ModelNames] : n \in 0..MaxCands}

RoleDefs ==
  {[hasCandidates |-> FALSE, candidates |-> <<>>]}
    \cup {[hasCandidates |-> TRUE, candidates |-> s] : s \in CandSeqs}

\* A mapping keeps one entry per key, in document order.
RoleItems ==
  {s \in UNION {[1..n -> RoleNames \X RoleDefs] : n \in 0..MaxRoles} :
     \A i, j \in 1..Len(s) : i # j => s[i][1] # s[j][1]}

Configs ==
  {[hasRoles |-> hr[1], roles |-> hr[2], hasModels |-> hm[1], models |-> hm[2]] :
     hr \in ({FALSE} \X {<<>>}) \cup ({TRUE} \X RoleItems),
     hm \in ({FALSE} \X {{}}) \cup ({TRUE} \X SUBSET ModelNames)}

EmptyCfg == [hasRoles |-> FALSE, roles |-> <<>>, hasModels |-> FALSE, models |-> {}]

\* ------------------------------------------------------------------- state
VARIABLES
  pc,       \* position of main(): the statement about to execute
  argc,     \* len(sys.argv)
  cfg,      \* the parsed configuration (EmptyCfg until it is loaded)
  verdict,  \* result of validate(): "none" until it ran
  out,      \* lines printed to standard output, in order
  status,   \* process exit status, NoStatus while running
  how,      \* "running", "sys_exit", "unhandled" or "returned"
  fault,    \* the exception that ended the run, "none" otherwise
  opens,    \* the open() calls made, in order
  steps,    \* the phases entered, in order
  ri        \* index of the next role the advisory loop visits

vars == <<pc, argc, cfg, verdict, out, status, how, fault, opens, steps, ri>>

\* --------------------------------------------------------- helper operators
\* A bug variant: the argument count compared against the wrong number.
UsageNeededOffByOne(n) == n < 1

\* len(sys.argv) < 2
UsageNeeded(n) == n < 2

\* cfg.get("roles", {}).items()
RolesOf(c) == IF c.hasRoles THEN c.roles ELSE <<>>

\* A bug variant: a default that is not the empty sequence.
CandidatesOfBadDefault(defn) ==
  IF defn.hasCandidates THEN defn.candidates ELSE <<"">>

\* defn.get("candidates", [])
CandidatesOf(defn) == IF defn.hasCandidates THEN defn.candidates ELSE <<>>

\* cfg.get("models", {})
ModelsOf(c) == IF c.hasModels THEN c.models ELSE {}

\* A bug variant: the lookup uses a key the document never has.
IsUnknownMisspelledKey(m, c) == m \notin {}

\* m not in cfg.get("models", {})
IsUnknown(m, c) == m \notin ModelsOf(c)

\* A bug variant: except Exception.
CatchesAny(exc) == exc \in {"ValidationError", "SchemaError"}

\* except ValidationError
Catches(exc) == exc = "ValidationError"

\* A bug variant: the candidates of one role reported once per distinct name.
RoleWarningsDedup(role, cands, c) ==
  LET Keep(k) == IsUnknown(cands[k], c) /\ \A j \in 1..(k - 1) : cands[j] # cands[k]
      idx == {k \in 1..Len(cands) : Keep(k)}
      Nth(n) == CHOOSE k \in idx : Cardinality({j \in idx : j < k}) = n - 1
  IN [n \in 1..Cardinality(idx) |-> WarningLine(role, cands[Nth(n)])]

\* A bug variant: the candidates of one role reported in sorted order.
RoleWarningsSorted(role, cands, c) ==
  LET IsGhost(m) == m = "ghost-model" /\ IsUnknown(m, c)
      IsOther(m) == m # "ghost-model" /\ IsUnknown(m, c)
      sorted == SelectSeq(cands, IsGhost) \o SelectSeq(cands, IsOther)
  IN [n \in 1..Len(sorted) |-> WarningLine(role, sorted[n])]

\* for m in defn.get("candidates", []): if m not in models: print(warning)
\* (the sequence of candidates is passed in by the caller)
RECURSIVE RoleWarnings(_, _, _)
RoleWarnings(role, cands, c) ==
  IF cands = <<>>
    THEN <<>>
    ELSE (IF IsUnknown(Head(cands), c)
            THEN <<WarningLine(role, Head(cands))>>
            ELSE <<>>)
         \o RoleWarnings(role, Tail(cands), c)

\* for role, defn in items: <inner loop>
RECURSIVE ScanItems(_, _)
ScanItems(items, c) ==
  IF items = <<>>
    THEN <<>>
    ELSE RoleWarnings(Head(items)[1], CandidatesOf(Head(items)[2]), c)
         \o ScanItems(Tail(items), c)

\* The whole advisory check: every line it prints for configuration c.
AdvisoryWarnings(c) == ScanItems(RolesOf(c), c)

\* ---------------------------------------------------------- initial state
Init ==
  /\ pc = "start"
  /\ argc \in 0..MaxArgc
  /\ cfg = EmptyCfg
  /\ verdict = "none"
  /\ out = <<>>
  /\ status = NoStatus
  /\ how = "running"
  /\ fault = "none"
  /\ opens = <<>>
  /\ steps = <<>>
  /\ ri = 0

\* Exceptions the environment can raise at each statement.
ConfigFaults == {"FileNotFoundError", "PermissionError", "YAMLError"}
SchemaFaults == {"FileNotFoundError", "PermissionError", "JSONDecodeError"}
ValidateFaults == {"ValidationError", "SchemaError"}

\* An exception leaves main() uncaught: the interpreter reports it on standard
\* error and the process ends with the interpreter's status.
Propagate(exc) ==
  /\ pc' = "exited"
  /\ how' = "unhandled"
  /\ status' = UnhandledExitStatus
  /\ fault' = exc

\* ------------------------------------------------------------------ actions
\* A bug variant: the usage branch leaves with the failure code.
UsageWrongCode ==
  /\ pc = "start"
  /\ UsageNeeded(argc)
  /\ out' = Append(out, UsageLine)
  /\ pc' = "exited"
  /\ how' = "sys_exit"
  /\ status' = 1
  /\ UNCHANGED <<argc, cfg, verdict, fault, opens, steps, ri>>

\* if len(sys.argv) < 2: print usage; sys.exit(2)
Usage ==
  /\ pc = "start"
  /\ UsageNeeded(argc)
  /\ out' = Append(out, UsageLine)
  /\ pc' = "exited"
  /\ how' = "sys_exit"
  /\ status' = 2
  /\ UNCHANGED <<argc, cfg, verdict, fault, opens, steps, ri>>

\* cfg_path = sys.argv[1]
ReadArgs ==
  /\ pc = "start"
  /\ ~UsageNeeded(argc)
  /\ pc' = "load_config"
  /\ UNCHANGED <<argc, cfg, verdict, out, status, how, fault, opens, steps, ri>>

\* A bug variant: a failed load is swallowed and the run goes on.
LoadConfigFailsLenient ==
  /\ pc = "load_config"
  /\ \E exc \in ConfigFaults : fault' = exc
  /\ pc' = "load_schema"
  /\ opens' = Append(opens, "config")
  /\ steps' = Append(steps, "load_config")
  /\ UNCHANGED <<argc, cfg, verdict, out, status, how, ri>>

\* open(cfg_path) or yaml.safe_load raises
LoadConfigFails ==
  /\ pc = "load_config"
  /\ \E exc \in ConfigFaults : Propagate(exc)
  /\ opens' = Append(opens, "config")
  /\ steps' = Append(steps, "load_config")
  /\ UNCHANGED <<argc, cfg, verdict, out, ri>>

\* with open(cfg_path) as f: cfg = yaml.safe_load(f)
LoadConfigOk ==
  /\ pc = "load_config"
  /\ \E c \in Configs : cfg' = c
  /\ pc' = "load_schema"
  /\ opens' = Append(opens, "config")
  /\ steps' = Append(steps, "load_config")
  /\ UNCHANGED <<argc, verdict, out, status, how, fault, ri>>

\* open(SCHEMA_PATH) or json.load raises
LoadSchemaFails ==
  /\ pc = "load_schema"
  /\ \E exc \in SchemaFaults : Propagate(exc)
  /\ opens' = Append(opens, "schema")
  /\ steps' = Append(steps, "load_schema")
  /\ UNCHANGED <<argc, cfg, verdict, out, ri>>

\* with open(SCHEMA_PATH) as f: schema = json.load(f)
LoadSchemaOk ==
  /\ pc = "load_schema"
  /\ pc' = "validate"
  /\ opens' = Append(opens, "schema")
  /\ steps' = Append(steps, "load_schema")
  /\ UNCHANGED <<argc, cfg, verdict, out, status, how, fault, ri>>

\* A bug variant: the failure is reported but sys.exit(1) is missing.
ValidateFailsNoExit ==
  /\ pc = "validate"
  /\ \E exc \in ValidateFaults : Catches(exc) /\ verdict' = exc /\ fault' = exc
  /\ out' = out \o <<FailedLine, DetailLine>>
  /\ pc' = "passed"
  /\ steps' = Append(steps, "validate")
  /\ UNCHANGED <<argc, cfg, status, how, opens, ri>>

\* validate raises ValidationError: print "Validation failed:", print(e), sys.exit(1)
ValidateFails ==
  /\ pc = "validate"
  /\ \E exc \in ValidateFaults : Catches(exc) /\ verdict' = exc /\ fault' = exc
  /\ out' = out \o <<FailedLine, DetailLine>>
  /\ pc' = "exited"
  /\ how' = "sys_exit"
  /\ status' = 1
  /\ steps' = Append(steps, "validate")
  /\ UNCHANGED <<argc, cfg, opens, ri>>

\* validate raises something the except clause does not name
ValidateRaises ==
  /\ pc = "validate"
  /\ \E exc \in ValidateFaults : ~Catches(exc) /\ verdict' = exc /\ Propagate(exc)
  /\ steps' = Append(steps, "validate")
  /\ UNCHANGED <<argc, cfg, out, opens, ri>>

\* validate returns
ValidatePasses ==
  /\ pc = "validate"
  /\ verdict' = "valid"
  /\ pc' = "passed"
  /\ steps' = Append(steps, "validate")
  /\ UNCHANGED <<argc, cfg, out, status, how, fault, opens, ri>>

\* print("Validation passed (advisory)."); the loop over the roles starts
PrintPassed ==
  /\ pc = "passed"
  /\ out' = Append(out, PassedLine)
  /\ pc' = "scan"
  /\ ri' = 1
  /\ steps' = Append(steps, "advisory")
  /\ UNCHANGED <<argc, cfg, verdict, status, how, fault, opens>>

\* A bug variant: a role with an unknown candidate fails the run.
ScanRoleStrict ==
  /\ pc = "scan"
  /\ ri <= Len(RolesOf(cfg))
  /\ LET item == RolesOf(cfg)[ri]
          lines == RoleWarnings(item[1], CandidatesOf(item[2]), cfg)
     IN /\ out' = out \o lines
        /\ IF lines = <<>>
             THEN /\ ri' = ri + 1
                  /\ UNCHANGED <<pc, status, how>>
             ELSE /\ pc' = "exited"
                  /\ how' = "sys_exit"
                  /\ status' = 1
                  /\ UNCHANGED ri
  /\ UNCHANGED <<argc, cfg, verdict, fault, opens, steps>>

\* one iteration of "for role, defn in cfg.get('roles', {}).items()"
ScanRole ==
  /\ pc = "scan"
  /\ ri <= Len(RolesOf(cfg))
  /\ LET item == RolesOf(cfg)[ri]
     IN out' = out \o RoleWarnings(item[1], CandidatesOf(item[2]), cfg)
  /\ ri' = ri + 1
  /\ UNCHANGED <<pc, argc, cfg, verdict, status, how, fault, opens, steps>>

\* the loop is exhausted: print("Done.")
PrintDone ==
  /\ pc = "scan"
  /\ ri > Len(RolesOf(cfg))
  /\ out' = Append(out, DoneLine)
  /\ pc' = "return"
  /\ steps' = Append(steps, "report")
  /\ UNCHANGED <<argc, cfg, verdict, status, how, fault, opens, ri>>

\* main() returns and the interpreter exits normally
Return ==
  /\ pc = "return"
  /\ pc' = "exited"
  /\ how' = "returned"
  /\ status' = 0
  /\ UNCHANGED <<argc, cfg, verdict, out, fault, opens, steps, ri>>

Next ==
  \/ Usage
  \/ ReadArgs
  \/ LoadConfigFails
  \/ LoadConfigOk
  \/ LoadSchemaFails
  \/ LoadSchemaOk
  \/ ValidateFails
  \/ ValidateRaises
  \/ ValidatePasses
  \/ PrintPassed
  \/ ScanRole
  \/ PrintDone
  \/ Return

Spec == Init /\ [][Next]_vars

\* The run is one sequential thread: an enabled statement executes.
FairSpec == Spec /\ WF_vars(Next)

\* =============================================================== properties
Terminated == pc = "exited"

IsWarning(l) == l.kind = "Warning"

\* The warning lines printed so far, in order.
Warnings == SelectSeq(out, IsWarning)

Printed(l) == \E k \in DOMAIN out : out[k] = l

CountKind(kind) == Cardinality({k \in DOMAIN out : out[k].kind = kind})

\* What the loaded document says, read off its fields.
DocRoles == cfg.roles
DocName(i) == cfg.roles[i][1]
DocCands(i) == cfg.roles[i][2].candidates
DocModels == cfg.models

Occurrences(s, m) == Cardinality({k \in DOMAIN s : s[k] = m})

LinesFor(r, m) ==
  Cardinality({k \in DOMAIN out : out[k] = Line("Warning", r, m)})

\* Candidate entries <<role index, candidate index>> naming no declared model,
\* among the first n roles.
UnknownEntries(n) ==
  UNION {{<<i, j>> : j \in {j \in DOMAIN DocCands(i) : DocCands(i)[j] \notin DocModels}} :
           i \in {i \in DOMAIN DocRoles : i <= n}}

Before(e, f) == e[1] < f[1] \/ (e[1] = f[1] /\ e[2] < f[2])

Rank(e, n) == 1 + Cardinality({f \in UnknownEntries(n) : Before(f, e)})

\* Roles the advisory loop has finished.
Visited ==
  IF pc = "scan" THEN ri - 1
  ELSE IF pc \in {"return", "exited"} /\ verdict = "valid" THEN Len(DocRoles)
  ELSE 0

NoCandidateEntries == \A i \in DOMAIN DocRoles : DocCands(i) = <<>>

IOParseFaults ==
  {"FileNotFoundError", "PermissionError", "YAMLError", "JSONDecodeError"}

CanonSteps == <<"load_config", "load_schema", "validate", "advisory", "report">>

IsPrefix(s, t) == Len(s) <= Len(t) /\ \A k \in DOMAIN s : s[k] = t[k]

Perms(n) == {p \in [1..n -> 1..n] : \A a, b \in 1..n : a # b => p[a] # p[b]}

WithCandidates(c, i, s) == [c EXCEPT !.roles[i][2].candidates = s]

WithRoleOrder(c, q) == [c EXCEPT !.roles = [k \in 1..Len(c.roles) |-> c.roles[q[k]]]]

LinesOfRole(lines, r) ==
  LET OfRole(l) == l.kind = "Warning" /\ l.role = r
  IN SelectSeq(lines, OfRole)

\* Indices of s, ascending, whose entry names no declared model.
UnknownIdx(s) ==
  LET Unk(k) == s[k] \notin DocModels
  IN SelectSeq([k \in 1..Len(s) |-> k], Unk)

PosIn(u, x) == CHOOSE n \in 1..Len(u) : u[n] = x

\* C1: a run with fewer than two argv entries never calls open(); it ends by
\* sys.exit(2) having printed exactly the usage line.
C1_UsageExit ==
  argc < 2 =>
    /\ opens = <<>>
    /\ steps = <<>>
    /\ pc \in {"start", "exited"}
    /\ Terminated => out = <<UsageLine>> /\ status = 2 /\ how = "sys_exit"

C1_Witness ==
  argc < 2 /\ Terminated /\ status = 2 /\ out = <<UsageLine>> /\ opens = <<>>

\* C2: when the loaded configuration does not conform to the schema, the
\* output is "Validation failed:" then the error detail, the exit code is 1,
\* and the advisory check does not run: no passed, warning or done line.
C2_ValidationFailure ==
  verdict = "ValidationError" =>
    /\ Terminated
    /\ out = <<FailedLine, DetailLine>>
    /\ status = 1
    /\ how = "sys_exit"
    /\ \A k \in DOMAIN out : out[k].kind \notin {"ValidationPassed", "Warning", "Done"}
    /\ \A k \in DOMAIN steps : steps[k] \notin {"advisory", "report"}

C2_Witness ==
  /\ verdict = "ValidationError"
  /\ Terminated
  /\ status = 1
  /\ UnknownEntries(Len(DocRoles)) # {}

\* C3: once validation has succeeded the run never takes a non-zero status,
\* and it eventually terminates with exit code 0 having printed
\* "Validation passed (advisory)." first and "Done." last, whatever number
\* of warnings the advisory check printed.
C3_DoneEventually ==
  /\ [](verdict = "valid" => status \in {NoStatus, 0})
  /\ (verdict = "valid") ~>
       (/\ Terminated
        /\ status = 0
        /\ how = "returned"
        /\ Len(out) >= 2
        /\ out[1] = PassedLine
        /\ out[Len(out)] = DoneLine
        /\ CountKind("Done") = 1)

C3_Witness ==
  /\ verdict = "valid"
  /\ Terminated
  /\ status = 0
  /\ Len(Warnings) >= 2
  /\ out[Len(out)] = DoneLine

\* C4 as stated: at the end of a successful run each (role, model name) has
\* exactly one warning line when the name is among the role's candidates and
\* is no key of models, and none otherwise; the warnings precede "Done." and
\* the exit code is 0.
C4_OneLinePerPair ==
  (Terminated /\ verdict = "valid") =>
    /\ \A i \in DOMAIN DocRoles : \A m \in ModelNames :
         LinesFor(DocName(i), m) =
           IF Occurrences(DocCands(i), m) > 0 /\ m \notin DocModels THEN 1 ELSE 0
    /\ status = 0

\* C4 amended: at the end of a successful run the number of warning lines for
\* (role, model name) is the number of times the name occurs in the role's
\* candidates when it is no key of models, and zero when it is a key; every
\* warning line names a role of the document, precedes "Done.", and the exit
\* code is 0.
C4_OneLinePerOccurrence ==
  (Terminated /\ verdict = "valid") =>
    /\ \A i \in DOMAIN DocRoles : \A m \in ModelNames :
         LinesFor(DocName(i), m) =
           IF m \notin DocModels THEN Occurrences(DocCands(i), m) ELSE 0
    /\ \A k \in DOMAIN out :
         out[k].kind = "Warning" =>
           /\ \E i \in DOMAIN DocRoles : out[k].role = DocName(i)
           /\ out[k].model \in ModelNames
           /\ k < Len(out)
    /\ out[Len(out)] = DoneLine
    /\ status = 0

C4_Witness ==
  /\ Terminated
  /\ verdict = "valid"
  /\ \E i \in DOMAIN DocRoles : \E m \in ModelNames :
       m \notin DocModels /\ Occurrences(DocCands(i), m) = 2
  /\ \E i \in DOMAIN DocRoles : \E m \in DocModels : Occurrences(DocCands(i), m) > 0

\* C5: the warning lines are the unknown candidate entries in role order and,
\* within a role, in candidates order, one line per entry: the entry with n
\* unknown entries before it is the (n+1)-th warning line, and there are no
\* other warning lines.  This holds after every role the loop has finished.
C5_WarningOrder ==
  verdict = "valid" =>
    /\ Len(Warnings) = Cardinality(UnknownEntries(Visited))
    /\ \A e \in UnknownEntries(Visited) :
         Warnings[Rank(e, Visited)] = Line("Warning", DocName(e[1]), DocCands(e[1])[e[2]])

C5_Witness ==
  /\ Terminated
  /\ verdict = "valid"
  /\ Len(DocRoles) = 2
  /\ \E m \in ModelNames :
       /\ m \notin DocModels
       /\ Occurrences(DocCands(1), m) = 2
       /\ Occurrences(DocCands(2), m) = 1
  /\ Len(Warnings) = 3

\* C6: a conforming configuration without roles, or whose roles have no
\* candidates entries, yields exactly "Validation passed (advisory)." then
\* "Done." and exit code 0, with or without models.
C6_NoCandidatesNoWarnings ==
  (verdict = "valid" /\ NoCandidateEntries) =>
    /\ Warnings = <<>>
    /\ Terminated => out = <<PassedLine, DoneLine>> /\ status = 0

C6_Witness ==
  /\ Terminated
  /\ verdict = "valid"
  /\ NoCandidateEntries
  /\ Len(DocRoles) = 2
  /\ \E i \in DOMAIN DocRoles : ~cfg.roles[i][2].hasCandidates
  /\ \E i \in DOMAIN DocRoles : cfg.roles[i][2].hasCandidates
  /\ out = <<PassedLine, DoneLine>>

\* C7 as stated: an I/O or parse error of either file is not caught and the
\* exit status is none of 0, 1 and 2.
C7_StatusOutsideDefinedCodes ==
  fault \in IOParseFaults => how = "unhandled" /\ status \notin {0, 1, 2}

\* C7 amended: an I/O or parse error of either file is not caught; the run
\* ends at once with nothing printed on standard output and with the
\* interpreter's status for an uncaught exception, which is 1: non-zero and
\* not 2, but equal to the schema-validation-failure code.  ValidationError
\* is the only exception main handles.
C7_UnhandledStatusIsOne ==
  /\ fault \in IOParseFaults =>
       /\ how = "unhandled"
       /\ Terminated
       /\ status = 1
       /\ out = <<>>
  /\ (fault # "none" /\ how # "unhandled") => fault = "ValidationError"
  /\ fault = "ValidationError" => how = "sys_exit" /\ Printed(FailedLine)

C7_Witness ==
  /\ fault = "JSONDecodeError"
  /\ how = "unhandled"
  /\ status = 1
  /\ opens = <<"config", "schema">>

\* C8: at the end of a successful run, (a) for every role and every
\* permutation of its candidates, the advisory check of the permuted document
\* prints for that role the lines of this run rearranged by the same
\* permutation of the unknown entries; (b) for every permutation of the
\* roles, the advisory check of the reordered document prints for each role
\* the same subsequence of lines as this run.
C8_OrderSensitivity ==
  (Terminated /\ verdict = "valid") =>
    /\ \A i \in DOMAIN DocRoles :
         cfg.roles[i][2].hasCandidates =>
           \A p \in Perms(Len(DocCands(i))) :
             LET s == DocCands(i)
                 s2 == [j \in 1..Len(s) |-> s[p[j]]]
                 w == LinesOfRole(Warnings, DocName(i))
                 w2 == LinesOfRole(AdvisoryWarnings(WithCandidates(cfg, i, s2)), DocName(i))
                 u == UnknownIdx(s)
                 u2 == UnknownIdx(s2)
             IN /\ Len(w) = Len(u)
                /\ Len(w2) = Len(u2)
                /\ \A k \in 1..Len(u2) : w2[k] = w[PosIn(u, p[u2[k]])]
    /\ \A q \in Perms(Len(DocRoles)) :
         \A i \in DOMAIN DocRoles :
           LinesOfRole(AdvisoryWarnings(WithRoleOrder(cfg, q)), DocName(i))
             = LinesOfRole(Warnings, DocName(i))

C8_Witness ==
  /\ Terminated
  /\ verdict = "valid"
  /\ Len(DocRoles) = 2
  /\ ~cfg.hasModels
  /\ \E i \in DOMAIN DocRoles :
       Len(DocCands(i)) = 2 /\ DocCands(i)[1] # DocCands(i)[2]
  /\ Len(Warnings) >= 3

\* C9: the phases entered form a prefix of load configuration, load schema,
\* validate, advisory scan, report (none twice, none out of order); each file
\* is opened at most once, the configuration first; an exception or
\* sys.exit ends the run at that phase, and the advisory scan and the report
\* happen only after a successful validation.
C9_LinearRun ==
  /\ IsPrefix(steps, CanonSteps)
  /\ IsPrefix(opens, <<"config", "schema">>)
  /\ fault # "none" => Terminated
  /\ (fault \in ConfigFaults /\ steps = <<"load_config">>) => opens = <<"config">>
  /\ (\E k \in DOMAIN steps : steps[k] \in {"advisory", "report"}) =>
       verdict = "valid" /\ fault = "none"
  /\ how \in {"sys_exit", "unhandled"} =>
       \A k \in DOMAIN steps : steps[k] \notin {"advisory", "report"}

C9_Witness ==
  /\ Terminated
  /\ fault = "YAMLError"
  /\ steps = <<"load_config">>
  /\ opens = <<"config">>

\* C10: at most one of the usage, validation-failed and validation-passed
\* lines has been printed, at most once; a warning or "Done." is preceded by
\* the validation-passed line; status 2 implies the usage line was printed,
\* status 1 by sys.exit implies "Validation failed:" was printed, and
\* status 0 implies "Done." was printed.
C10_OutcomeExclusion ==
  /\ CountKind("Usage") + CountKind("ValidationFailed") + CountKind("ValidationPassed") <= 1
  /\ \A k \in DOMAIN out :
       out[k].kind \in {"Warning", "Done"} => \E j \in 1..(k - 1) : out[j] = PassedLine
  /\ status = 2 => Printed(UsageLine)
  /\ (status = 1 /\ how = "sys_exit") => Printed(FailedLine)
  /\ status = 0 => Printed(DoneLine)

C10_Witness ==
  /\ Terminated
  /\ status = 0
  /\ how = "returned"
  /\ Len(Warnings) = 1
  /\ Printed(PassedLine)
  /\ Printed(DoneLine)

====
